---- MODULE Spec2Model ----
(***************************************************************************)
(* Model of the stick-figure skeleton walk (src/src/main.cpp): the Bone /  *)
(* Skeleton container, forward kinematics (updateGlobals), the walk-cycle  *)
(* animator, the two geometry builders, the orbit camera callbacks and the *)
(* frame loop of main.                                                     *)
(*                                                                         *)
(* Floats are modelled in fixed point.  Lengths and positions are in       *)
(* 1/Scale of a metre, matrix entries in 1/Scale, bone rotations in        *)
(* 1/Scale of a degree, camera angles and distance in tenths.  Angles fed  *)
(* to Sin are whole degrees.  Time is counted in 1/TimeUnitsPerSecond s.   *)
(*                                                                         *)
(* Three specifications share the definitions:                            *)
(*   Spec        main: makeHuman, then the frame loop;                     *)
(*   SpecCamera  the input callbacks glfwPollEvents dispatches;            *)
(*   SpecBuild   a client that builds any skeleton with addBone, poses     *)
(*               it, evaluates it and asks for the head sphere.            *)
(***************************************************************************)
EXTENDS Integers, Sequences, FiniteSets

VARIABLES
    bones,        \* Skeleton::bones, a sequence of Bone records
    pc,           \* position of main (or "build" for a client of Skeleton)
    t,            \* elapsed time read by the last frame (time units)
    trace,        \* steps executed so far in the current frame
    frames,       \* number of completed frames
    lineVerts,    \* lineVerts of the current frame
    triVerts,     \* number of vertices of triVerts of the current frame
    headRead,     \* buildHeadSphereTris read s.bones[3] in its last call
    tess,         \* <<stacks, slices>> of the last buildHeadSphereTris call
    vboLines,     \* bytes held by the line buffer's last upload
    vboTris,      \* bytes held by the triangle buffer's last upload
    glError,      \* a glBufferSubData call was rejected (GL_INVALID_VALUE)
    lastOp,       \* last operation a client applied to the skeleton
    crashed,      \* the process died on an out-of-bounds access
    sweeps,       \* updateGlobals calls a client has made
    g_mouseDown, g_lastX, g_lastY, g_cam

vars == <<bones, pc, t, trace, frames, lineVerts, triVerts, headRead, tess,
          vboLines, vboTris, glError, lastOp, crashed, sweeps,
          g_mouseDown, g_lastX, g_lastY, g_cam>>

skelVars == <<bones, pc, t, trace, frames, lineVerts, triVerts, headRead, tess,
              vboLines, vboTris, glError, lastOp, crashed, sweeps>>
camVars  == <<g_mouseDown, g_lastX, g_lastY, g_cam>>

----------------------------------------------------------------------------
(* Bounds of the model *)

MaxT == 120         \* frames are taken while t <= MaxT (two walk periods)
MaxBones == 4       \* a client adds at most MaxBones bones
MaxFrames == 3      \* the frame counter saturates here
MaxYaw == 120       \* cursor drags are taken while |yaw| <= MaxYaw degrees
MaxSweeps == 1      \* a client calls updateGlobals at most MaxSweeps times

(* Fixed-point resolution *)
Scale == 1000
TimeUnitsPerSecond == 96

FrameDts == {0, 1, 7}       \* time between two frames (time units)

----------------------------------------------------------------------------
(* Arithmetic *)

Max(a, b) == IF a >= b THEN a ELSE b
Min(a, b) == IF a <= b THEN a ELSE b
clamp(x, lo, hi) == Min(Max(x, lo), hi)

\* std::sin of an angle in whole degrees, scaled by Scale (Bhaskara's formula
\* on [0,180], odd symmetry on (180,360), period 360).
SinHalfTurn(x) == (4 * Scale * x * (180 - x)) \div (40500 - x * (180 - x))
Sin(d) ==
    LET r == d % 360
    IN  IF r <= 180 THEN SinHalfTurn(r) ELSE 0 - SinHalfTurn(r - 180)
Cos(d) == Sin(d + 90)

\* Rotation in 1/Scale degree, rounded to the whole degree Sin takes.
WholeDeg(md) == (md + (Scale \div 2)) \div Scale

----------------------------------------------------------------------------
(* glm::vec3 / glm::mat4.  A mat4 is a tuple of 4 columns of 4 entries,    *)
(* column-major as in glm: m[c][r], indices from 1.                        *)

vec3(x, y, z) == <<x, y, z>>
Zero3 == <<0, 0, 0>>
Add3(a, b) == <<a[1] + b[1], a[2] + b[2], a[3] + b[3]>>

Identity == << <<Scale, 0, 0, 0>>, <<0, Scale, 0, 0>>,
               <<0, 0, Scale, 0>>, <<0, 0, 0, Scale>> >>

\* a, b (and m, w) are bound to the values of the arguments, so that each is
\* evaluated once.
MatMul(A, B) ==
    CHOOSE p \in { [c \in 1..4 |-> [r \in 1..4 |->
                     (a[1][r] * b[c][1] + a[2][r] * b[c][2]
                      + a[3][r] * b[c][3] + a[4][r] * b[c][4]) \div Scale]]
                   : a \in {A}, b \in {B} } : TRUE

MatVec(A, v) ==
    CHOOSE p \in { [r \in 1..4 |->
                     (m[1][r] * w[1] + m[2][r] * w[2] + m[3][r] * w[3]
                      + m[4][r] * w[4]) \div Scale]
                   : m \in {A}, w \in {v} } : TRUE

translate(v) == << <<Scale, 0, 0, 0>>, <<0, Scale, 0, 0>>,
                   <<0, 0, Scale, 0>>, <<v[1], v[2], v[3], Scale>> >>

RotX(d) == << <<Scale, 0, 0, 0>>, <<0, Cos(d), Sin(d), 0>>,
              <<0, 0 - Sin(d), Cos(d), 0>>, <<0, 0, 0, Scale>> >>
RotY(d) == << <<Cos(d), 0, 0 - Sin(d), 0>>, <<0, Scale, 0, 0>>,
              <<Sin(d), 0, Cos(d), 0>>, <<0, 0, 0, Scale>> >>
RotZ(d) == << <<Cos(d), Sin(d), 0, 0>>, <<0 - Sin(d), Cos(d), 0, 0>>,
              <<0, 0, Scale, 0>>, <<0, 0, 0, Scale>> >>

----------------------------------------------------------------------------
(* Bones / Skeleton *)

Bone(parent, bindOffset, eulerDeg, length, global) ==
    [parent |-> parent, bindOffset |-> bindOffset, eulerDeg |-> eulerDeg,
     length |-> length, global |-> global]

\* Skeleton::addBone: the bone is appended whatever its parent index is.
addBone(bs, parent, bindOffset, length) ==
    Append(bs, Bone(parent, bindOffset, Zero3, length, Identity))

\* Skeleton::rotXYZ
rotXYZ(deg) ==
    MatMul(MatMul(RotZ(WholeDeg(deg[3])), RotY(WholeDeg(deg[2]))),
           RotX(WholeDeg(deg[1])))

\* bones[p].global as the sweep reads it: an index past the end of the
\* vector is an out-of-bounds read, which yields oob.
ParentGlobal(bs, p, oob) == IF p < Len(bs) THEN bs[p + 1].global ELSE oob

\* Mutant: the parent's transform is not applied.
updateBoneNoParent(bs, i, oob) ==
    [bs EXCEPT ![i + 1].global =
        MatMul(translate(bs[i + 1].bindOffset), rotXYZ(bs[i + 1].eulerDeg))]

\* One iteration of the loop of updateGlobals, for the 0-based index i.
updateBone(bs, i, oob) ==
    LET p     == bs[i + 1].parent
        local == MatMul(translate(bs[i + 1].bindOffset),
                        rotXYZ(bs[i + 1].eulerDeg))
        g     == IF p >= 0 THEN MatMul(ParentGlobal(bs, p, oob), local)
                 ELSE local
    IN  [bs EXCEPT ![i + 1].global = g]

RECURSIVE sweep(_, _, _)
sweep(bs, i, oob) ==
    IF i >= Len(bs) THEN bs ELSE sweep(updateBone(bs, i, oob), i + 1, oob)

\* Skeleton::updateGlobals: one in-place sweep in index order.
updateGlobals(bs, oob) == sweep(bs, 0, oob)

\* Some bone's parent index lies past the end of the vector.
ReadsOutOfBounds(bs) == \E i \in 1..Len(bs) : bs[i].parent >= Len(bs)

\* The rig's structure: what makeHuman fixes for every bone.
Structure(bs) ==
    [i \in 1..Len(bs) |-> <<bs[i].parent, bs[i].bindOffset, bs[i].length>>]

\* Root has no parent, every other bone names a strictly earlier index.
TopologicalOrder(bs) ==
    \A i \in 1..Len(bs) :
        IF i = 1 THEN bs[i].parent = -1
        ELSE bs[i].parent >= 0 /\ bs[i].parent < i - 1

----------------------------------------------------------------------------
(* makeHuman: the 16-bone rig.  addBone returns bones.size()-1, the index  *)
(* of the bone it appended.                                                *)

pelvisH == 1000
spineLen == 400
neckLen == 100
headLen == 220
upperLeg == 450
lowerLeg == 450
footLen == 180
upperArm == 300
lowerArm == 300
handLen == 120
hipWidth == 180
shoulderWidth == 280
hipDrop == 300

makeHuman ==
    LET s1  == addBone(<< >>, -1, vec3(0, pelvisH + hipDrop, 0), 0)
        root == Len(s1) - 1
        s2  == addBone(s1, root, vec3(0, 0, 0), spineLen)
        spine == Len(s2) - 1
        s3  == addBone(s2, spine, vec3(0, spineLen, 0), neckLen)
        neck == Len(s3) - 1
        s4  == addBone(s3, neck, vec3(0, neckLen, 0), headLen)
        s5  == addBone(s4, root, vec3(hipWidth \div 2, 0 - hipDrop, 0), upperLeg)
        hipL == Len(s5) - 1
        s6  == addBone(s5, hipL, vec3(0, 0 - upperLeg, 0), lowerLeg)
        kneeL == Len(s6) - 1
        s7  == addBone(s6, kneeL, vec3(0, 0 - lowerLeg, 0), footLen)
        s8  == addBone(s7, root, vec3(0 - (hipWidth \div 2), 0 - hipDrop, 0), upperLeg)
        hipR == Len(s8) - 1
        s9  == addBone(s8, hipR, vec3(0, 0 - upperLeg, 0), lowerLeg)
        kneeR == Len(s9) - 1
        s10 == addBone(s9, kneeR, vec3(0, 0 - lowerLeg, 0), footLen)
        s11 == addBone(s10, spine, vec3(shoulderWidth \div 2, spineLen, 0), upperArm)
        shoulderL == Len(s11) - 1
        s12 == addBone(s11, shoulderL, vec3(0, 0 - upperArm, 0), lowerArm)
        elbowL == Len(s12) - 1
        s13 == addBone(s12, elbowL, vec3(0, 0 - lowerArm, 0), handLen)
        s14 == addBone(s13, spine, vec3(0 - (shoulderWidth \div 2), spineLen, 0), upperArm)
        shoulderR == Len(s14) - 1
        s15 == addBone(s14, shoulderR, vec3(0, 0 - upperArm, 0), lowerArm)
        elbowR == Len(s15) - 1
        s16 == addBone(s15, elbowR, vec3(0, 0 - lowerArm, 0), handLen)
    IN  s16

----------------------------------------------------------------------------
(* Geometry helpers *)

jointPos(b) == <<b.global[4][1], b.global[4][2], b.global[4][3]>>

endpointPos(b) ==
    LET p == MatVec(b.global, <<0, 0 - b.length, 0, Scale>>)
    IN  <<p[1], p[2], p[3]>>

appendLine(v, a, b, c) ==
    Append(Append(v, [pos |-> a, col |-> c]), [pos |-> b, col |-> c])

boneColor == <<Scale, 900, 400>>
lengthEpsilon == 1              \* 0.001f
headSlot == 3
gridN == 20
gridG == 2 * Scale              \* G = 2.0f
gridStep == Scale \div 10       \* 0.1f

\* The bone loop of buildSkeletonLines, from the 0-based index i.
RECURSIVE boneLines(_, _, _)
boneLines(bs, i, v) ==
    IF i >= Len(bs) THEN v
    ELSE LET b == bs[i + 1]
         IN  IF b.length <= lengthEpsilon \/ i = 0 \/ i = headSlot
             THEN boneLines(bs, i + 1, v)
             ELSE boneLines(bs, i + 1,
                            appendLine(v, jointPos(b), endpointPos(b), boneColor))

\* One iteration of the ground-grid loop of buildSkeletonLines: the two
\* segments it appends for index i.
gridIteration(i) ==
    LET tt == IF i % 5 = 0 THEN 200 ELSE 80
        c  == <<tt, tt, tt>>
        v1 == appendLine(<< >>, <<i * gridStep, 0, 0 - gridG>>,
                                <<i * gridStep, 0, gridG>>, c)
    IN  appendLine(v1, <<0 - gridG, 0, i * gridStep>>,
                       <<gridG, 0, i * gridStep>>, c)

\* The ground-grid loop for(i = lo; i <= hi; ++i): what its iterations append,
\* in order (the range is halved to keep the evaluation shallow).
RECURSIVE gridLines(_, _)
gridLines(lo, hi) ==
    IF lo > hi THEN << >>
    ELSE IF lo = hi THEN gridIteration(lo)
    ELSE LET mid == (lo + hi) \div 2
         IN  gridLines(lo, mid) \o gridLines(mid + 1, hi)

\* Mutant: the grid loop stops one index early (i < N).
buildSkeletonLinesShortGrid(bs) ==
    boneLines(bs, 0, << >>) \o gridLines(0 - gridN, gridN - 1)

buildSkeletonLines(bs) == boneLines(bs, 0, << >>) \o gridLines(0 - gridN, gridN)

\* The inner triangle loop of buildHeadSphereTris, for(j; j < slices; j++):
\* the vertices it pushes, 6 per cell.
RECURSIVE sliceLoop(_, _)
sliceLoop(j, slices) ==
    IF j >= slices THEN 0 ELSE 6 + sliceLoop(j + 1, slices)

\* The ring loop of buildHeadSphereTris, for(i; i <= stacks; i++): the
\* vertices it pushes; ring 0 only seeds prev.
RECURSIVE stackLoop(_, _, _)
stackLoop(i, stacks, slices) ==
    IF i > stacks THEN 0
    ELSE IF i = 0 THEN stackLoop(1, stacks, slices)
    ELSE sliceLoop(0, slices) + stackLoop(i + 1, stacks, slices)

\* Mutant: the size guard is off by one (size < 3).
buildHeadSphereTrisLooseGuard(bs, stacks, slices) ==
    IF Len(bs) < headSlot
    THEN [count |-> 0, read |-> FALSE]
    ELSE [count |-> stackLoop(0, stacks, slices), read |-> TRUE]

\* buildHeadSphereTris: the number of vertices returned, and whether
\* s.bones[3] was read.
buildHeadSphereTris(bs, stacks, slices) ==
    IF Len(bs) <= headSlot
    THEN [count |-> 0, read |-> FALSE]
    ELSE [count |-> stackLoop(0, stacks, slices), read |-> TRUE]

----------------------------------------------------------------------------
(* Animation *)

walkSpeedTenths == 16           \* walkSpeed = 1.6f steps per second
ankleOffsetDeg == 23            \* 0.4f rad
wristOffsetDeg == 57            \* 1.0f rad
piDeg == 180                    \* glm::pi<float>()

\* Mutant: the phase advances by pi, not two_pi, per step.
walkPhaseHalfTurn(time) ==
    (time * walkSpeedTenths * 180) \div (10 * TimeUnitsPerSecond)

\* phase = t * walkSpeed * two_pi, in whole degrees.
walkPhase(time) == (time * walkSpeedTenths * 360) \div (10 * TimeUnitsPerSecond)

\* phase*0.5f
halfPhase(phase) == phase \div 2

hipSwing(phase)  == 30 * Sin(phase)
kneeFlexUnrectified(phase) == 25 * Sin(phase)     \* mutant: no max(0, .)
kneeFlex(phase)  == 25 * Max(0, Sin(phase))
armSwing(phase)  == 35 * Sin(phase + piDeg)
elbowFlex(phase) == 10 * Max(0, Sin(phase + piDeg))

\* The setR calls of animateWalk in program order: <<idx, <<rx, ry, rz>> >>.
walkWrites(time) ==
    LET phase == walkPhase(time)
        half  == halfPhase(phase)
    IN  << <<0,  <<0, 0, 3 * Sin(half)>> >>,
           <<1,  <<5 * Sin(half), 0, 0>> >>,
           <<2,  <<(0 - 3) * Sin(half), 0, 0>> >>,
           <<3,  <<2 * Sin(half), 0, 0>> >>,
           <<4,  <<hipSwing(phase), 0, 0>> >>,
           <<5,  <<0 - kneeFlex(phase), 0, 0>> >>,
           <<6,  <<5 * Sin(phase + ankleOffsetDeg), 0, 0>> >>,
           <<7,  <<0 - hipSwing(phase), 0, 0>> >>,
           <<8,  <<(0 - 25) * Max(0, Sin(phase + piDeg)), 0, 0>> >>,
           <<9,  <<5 * Sin(phase + piDeg + ankleOffsetDeg), 0, 0>> >>,
           <<10, <<armSwing(phase), 0, 0>> >>,
           <<11, <<0 - elbowFlex(phase), 0, 0>> >>,
           <<12, <<5 * Sin(phase + wristOffsetDeg), 0, 0>> >>,
           <<13, <<0 - armSwing(phase), 0, 0>> >>,
           <<14, <<(0 - 10) * Max(0, Sin(phase)), 0, 0>> >>,
           <<15, <<5 * Sin(phase + piDeg + wristOffsetDeg), 0, 0>> >> >>

\* Mutant: the lambda writes the bind offset instead of the rotation.
setRWrongField(bs, idx, rot) == [bs EXCEPT ![idx + 1].bindOffset = rot]

\* The setR lambda: s.bones[idx].eulerDeg = {rx, ry, rz}.
setR(bs, idx, rot) == [bs EXCEPT ![idx + 1].eulerDeg = rot]

RECURSIVE applyWrites(_, _, _)
applyWrites(bs, ws, k) ==
    IF k > Len(ws) THEN bs
    ELSE applyWrites(setR(bs, ws[k][1], ws[k][2]), ws, k + 1)

\* Mutant: the trailing s.updateGlobals() is missing.
animateWalkNoFK(bs, time) == applyWrites(bs, walkWrites(time), 1)

\* animateWalk: the sixteen writes, then s.updateGlobals().  The rig has all
\* sixteen slots and in-range parents, so no read is out of bounds.
animateWalk(bs, time) == updateGlobals(applyWrites(bs, walkWrites(time), 1), Identity)

----------------------------------------------------------------------------
(* Camera & input.  yaw and pitch are in tenths of a degree, dist in       *)
(* tenths; a cursor delta of 1 turns by 0.3 degree, a scroll offset of 1   *)
(* moves by 0.2.                                                           *)

Camera == [yaw |-> 300, pitch |-> -150, dist |-> 30]

pitchLimit == 850               \* 85.0f
distMin == 12                   \* 1.2f
distMax == 80                   \* 8.0f
GLFW_MOUSE_BUTTON_LEFT == 0
GLFW_PRESS == 1

CursorXs == {0, 100}
CursorYs == {0, 100, 400}
Buttons == {0, 1}
ButtonActions == {0, 1}
ScrollOffsets == {-15, 5, 15}

\* Mutant: the pitch is not clamped after a drag.
cursorPosNoClamp(down, lastX, lastY, cam, x, y) ==
    IF ~down THEN <<x, y, cam>>
    ELSE <<x, y, [cam EXCEPT !.yaw = cam.yaw + 3 * (x - lastX),
                             !.pitch = cam.pitch + 3 * (y - lastY)]>>

\* cursorPos: the new <<g_lastX, g_lastY, g_cam>>.
cursorPos(down, lastX, lastY, cam, x, y) ==
    IF ~down THEN <<x, y, cam>>
    ELSE LET dx == x - lastX
             dy == y - lastY
             yaw   == cam.yaw + 3 * dx
             pitch == clamp(cam.pitch + 3 * dy, 0 - pitchLimit, pitchLimit)
         IN  <<x, y, [cam EXCEPT !.yaw = yaw, !.pitch = pitch]>>

\* mouseBtn: the new g_mouseDown.
mouseBtn(down, button, action) ==
    IF button = GLFW_MOUSE_BUTTON_LEFT THEN action = GLFW_PRESS ELSE down

\* scrollCB: the new g_cam.
scrollCB(cam, yoff) ==
    [cam EXCEPT !.dist = clamp(cam.dist - 2 * yoff, distMin, distMax)]

----------------------------------------------------------------------------
(* main: buffers, skeleton, frame loop *)

BufferCapacity == 1024 * 1024   \* glBufferData(..., 1024*1024, ...)
sizeofVertex == 24              \* sizeof(LineVertex) = sizeof(TriVertex)
headStacks == 16
headSlices == 24

\* glBufferSubData(target, 0, bytes, data) on a buffer of BufferCapacity
\* bytes: a range past the end is rejected and nothing is written.
\* The new <<bytes held, error flag>>.
glBufferSubData(held, err, bytes) ==
    IF bytes <= BufferCapacity THEN <<bytes, err>> ELSE <<held, TRUE>>

Init ==
    /\ bones = << >>
    /\ pc = "start"
    /\ t = 0
    /\ trace = << >>
    /\ frames = 0
    /\ lineVerts = << >>
    /\ triVerts = 0
    /\ headRead = FALSE
    /\ tess = <<0, 0>>
    /\ vboLines = 0
    /\ vboTris = 0
    /\ glError = FALSE
    /\ lastOp = "none"
    /\ crashed = FALSE
    /\ sweeps = 0
    /\ g_mouseDown = FALSE
    /\ g_lastX = 0
    /\ g_lastY = 0
    /\ g_cam = Camera

\* Skeleton skel = makeHuman();
MakeHuman ==
    /\ pc = "start"
    /\ bones' = makeHuman
    /\ pc' = "loop"
    /\ UNCHANGED <<t, trace, frames, lineVerts, triVerts, headRead, tess,
                   vboLines, vboTris, glError, lastOp, crashed, sweeps>>
    /\ UNCHANGED camVars

\* while(!glfwWindowShouldClose(win)): the window was closed.
CloseWindow ==
    /\ pc = "loop"
    /\ pc' = "done"
    /\ UNCHANGED <<bones, t, trace, frames, lineVerts, triVerts, headRead,
                   tess, vboLines, vboTris, glError, lastOp, crashed, sweeps>>
    /\ UNCHANGED camVars

\* while(!glfwWindowShouldClose(win)): a new frame begins.
BeginFrame ==
    /\ pc = "loop"
    /\ pc' = "poll"
    /\ trace' = << >>
    /\ UNCHANGED <<bones, t, frames, lineVerts, triVerts, headRead, tess,
                   vboLines, vboTris, glError, lastOp, crashed, sweeps>>
    /\ UNCHANGED camVars

\* glfwPollEvents with no event pending, viewport, clear.
PollEvents ==
    /\ pc = "poll"
    /\ pc' = "animate"
    /\ trace' = Append(trace, "poll")
    /\ UNCHANGED <<bones, t, frames, lineVerts, triVerts, headRead, tess,
                   vboLines, vboTris, glError, lastOp, crashed, sweeps>>
    /\ UNCHANGED camVars

\* t = glfwGetTime() - start; animateWalk(skel, t);
AnimateWalk ==
    /\ pc = "animate"
    /\ \E dt \in FrameDts :
        /\ t + dt <= MaxT
        /\ t' = t + dt
        /\ bones' = animateWalk(bones, t + dt)
    /\ pc' = "buildLines"
    /\ trace' = Append(Append(trace, "animate"), "updateGlobals")
    /\ UNCHANGED <<frames, lineVerts, triVerts, headRead, tess,
                   vboLines, vboTris, glError, lastOp, crashed, sweeps>>
    /\ UNCHANGED camVars

\* lineVerts = buildSkeletonLines(skel);
BuildSkeletonLines ==
    /\ pc = "buildLines"
    /\ lineVerts' = buildSkeletonLines(bones)
    /\ pc' = "uploadLines"
    /\ trace' = Append(trace, "buildSkeletonLines")
    /\ UNCHANGED <<bones, t, frames, triVerts, headRead, tess,
                   vboLines, vboTris, glError, lastOp, crashed, sweeps>>
    /\ UNCHANGED camVars

\* glBufferSubData(GL_ARRAY_BUFFER, 0, lineVerts.size()*sizeof(LineVertex), ...)
UploadLines ==
    /\ pc = "uploadLines"
    /\ LET r == glBufferSubData(vboLines, glError, Len(lineVerts) * sizeofVertex)
       IN  vboLines' = r[1] /\ glError' = r[2]
    /\ pc' = "buildTris"
    /\ trace' = Append(trace, "uploadLines")
    /\ UNCHANGED <<bones, t, frames, lineVerts, triVerts, headRead, tess,
                   vboTris, lastOp, crashed, sweeps>>
    /\ UNCHANGED camVars

\* triVerts = buildHeadSphereTris(skel, 16, 24);
BuildHeadSphereTris ==
    /\ pc = "buildTris"
    /\ LET r == buildHeadSphereTris(bones, headStacks, headSlices)
       IN  triVerts' = r.count /\ headRead' = r.read
    /\ tess' = <<headStacks, headSlices>>
    /\ pc' = "uploadTris"
    /\ trace' = Append(trace, "buildHeadSphereTris")
    /\ UNCHANGED <<bones, t, frames, lineVerts, vboLines, vboTris, glError,
                   lastOp, crashed, sweeps>>
    /\ UNCHANGED camVars

\* glBufferSubData(GL_ARRAY_BUFFER, 0, triVerts.size()*sizeof(TriVertex), ...)
UploadTris ==
    /\ pc = "uploadTris"
    /\ LET r == glBufferSubData(vboTris, glError, triVerts * sizeofVertex)
       IN  vboTris' = r[1] /\ glError' = r[2]
    /\ pc' = "drawTris"
    /\ trace' = Append(trace, "uploadTris")
    /\ UNCHANGED <<bones, t, frames, lineVerts, triVerts, headRead, tess,
                   vboLines, lastOp, crashed, sweeps>>
    /\ UNCHANGED camVars

\* view/projection uniforms, glDrawArrays(GL_TRIANGLES, 0, triVerts.size())
DrawTris ==
    /\ pc = "drawTris"
    /\ pc' = "drawLines"
    /\ trace' = Append(trace, "drawTris")
    /\ UNCHANGED <<bones, t, frames, lineVerts, triVerts, headRead, tess,
                   vboLines, vboTris, glError, lastOp, crashed, sweeps>>
    /\ UNCHANGED camVars

\* glDrawArrays(GL_LINES, 0, lineVerts.size())
DrawLines ==
    /\ pc = "drawLines"
    /\ pc' = "swap"
    /\ trace' = Append(trace, "drawLines")
    /\ UNCHANGED <<bones, t, frames, lineVerts, triVerts, headRead, tess,
                   vboLines, vboTris, glError, lastOp, crashed, sweeps>>
    /\ UNCHANGED camVars

\* glfwSwapBuffers; the frame's vectors go out of scope.
SwapBuffers ==
    /\ pc = "swap"
    /\ pc' = "loop"
    /\ frames' = Min(frames + 1, MaxFrames)
    /\ lineVerts' = << >>
    /\ triVerts' = 0
    /\ UNCHANGED <<bones, t, trace, headRead, tess, vboLines, vboTris,
                   glError, lastOp, crashed, sweeps>>
    /\ UNCHANGED camVars

Next ==
    \/ MakeHuman
    \/ CloseWindow
    \/ BeginFrame
    \/ PollEvents
    \/ AnimateWalk
    \/ BuildSkeletonLines
    \/ UploadLines
    \/ BuildHeadSphereTris
    \/ UploadTris
    \/ DrawTris
    \/ DrawLines
    \/ SwapBuffers

Spec == Init /\ [][Next]_vars

----------------------------------------------------------------------------
(* Properties of the frame loop (specification Spec) *)

Built == pc \notin {"start"}

\* The line stream of the current frame exists.
LinesBuilt ==
    pc \in {"uploadLines", "buildTris", "uploadTris", "drawTris", "drawLines", "swap"}

\* C2 as stated: for the 16-bone rig, every frame's line stream has exactly
\* 190 vertices, 2 for each of 13 bone segments and 2 for each of the 82
\* grid segments.
C2_LineCount190 == LinesBuilt => Len(lineVerts) = 190

\* C2 amended: for the 16-bone rig, every frame's line stream has exactly
\* 192 vertices: 2 for each of 14 bone segments (only the root, which is also
\* the only zero-length bone, and the head are excluded), in the bone colour,
\* followed by 2 for each of the 82 grid segments.
C2_LineCount192 ==
    LinesBuilt =>
        /\ Len(bones) = 16
        /\ Len(lineVerts) = 2 * (14 + 82)
        /\ \A k \in 1..Len(lineVerts) :
              (lineVerts[k].col = boneColor) <=> (k <= 2 * 14)

C2_Witness ==
    /\ pc = "uploadLines"
    /\ frames >= 1
    /\ Len(lineVerts) = 192
    /\ lineVerts[1].pos = jointPos(bones[2])

\* The walk period 1/walkSpeed, in time units.
Period == (10 * TimeUnitsPerSecond) \div walkSpeedTenths

\* The rotations animateWalk writes when called dt later than the last call.
RotationsLater(dt) ==
    LET later == applyWrites(bones, walkWrites(t + dt), 1)
    IN  [i \in 1..Len(bones) |-> later[i].eulerDeg]

Neg3(v) == <<0 - v[1], 0 - v[2], 0 - v[3]>>

JustAnimated == pc = "buildLines"

\* C3 as stated: animateWalk(s, t) and animateWalk(s, t + period), with
\* period = 1/stepsPerSecond, write the same rotation to every one of the 16
\* bones, the half-frequency root, spine, neck and head included.
C3_PeriodicAllBones ==
    JustAnimated =>
        \A i \in 1..16 : bones[i].eulerDeg = RotationsLater(Period)[i]

\* C3 amended: one period later animateWalk writes the same rotation to the
\* twelve limb bones (4..15) and the negated rotation to the root, spine,
\* neck and head, which are driven at half frequency; two periods later it
\* writes the same rotation to all 16 bones.
C3_PeriodicLimbs ==
    JustAnimated =>
        /\ \A i \in 5..16 : bones[i].eulerDeg = RotationsLater(Period)[i]
        /\ \A i \in 1..4 : bones[i].eulerDeg = Neg3(RotationsLater(Period)[i])
        /\ \A i \in 1..16 : bones[i].eulerDeg = RotationsLater(2 * Period)[i]

C3_Witness ==
    /\ JustAnimated
    /\ t > 0
    /\ bones[2].eulerDeg[1] > 0
    /\ bones[5].eulerDeg[1] # 0
    /\ RotationsLater(Period)[2][1] < 0

\* The steps of one frame in program order.
FrameSteps ==
    <<"poll", "animate", "updateGlobals", "buildSkeletonLines", "uploadLines",
      "buildHeadSphereTris", "uploadTris", "drawTris", "drawLines">>

\* The phase of a step in the order animate, FK, extraction, upload, draw.
Phase(step) ==
    CASE step = "poll" -> 0
      [] step = "animate" -> 1
      [] step = "updateGlobals" -> 2
      [] step \in {"buildSkeletonLines", "buildHeadSphereTris"} -> 3
      [] step \in {"uploadLines", "uploadTris"} -> 4
      [] OTHER -> 5

\* Every worldTransform is what updateGlobals computes from the current
\* localRotation values.
TransformsFresh == bones = updateGlobals(bones, Identity)

AboutToExtract == pc \in {"buildLines", "buildTris"}

\* C4 as stated: within a frame the steps run in the strict phase order
\* animate, FK, geometry extraction, upload, draw, and the transforms the
\* extractors read are fresh.
C4_StrictPhaseOrder ==
    /\ \A j, k \in 1..Len(trace) : j < k => Phase(trace[j]) <= Phase(trace[k])
    /\ AboutToExtract => TransformsFresh

\* C4 amended: every frame runs, without overlap with the next, the steps
\* animate, FK, line extraction, line upload, triangle extraction, triangle
\* upload, triangle draw, line draw in that order (each stream is uploaded
\* right after it is extracted, so the line upload precedes the triangle
\* extraction); whenever an extractor reads the transforms they are fresh,
\* and the streams it returned are those of the fresh transforms.
C4_FrameOrder ==
    /\ Len(trace) <= Len(FrameSteps)
    /\ \A k \in 1..Len(trace) : trace[k] = FrameSteps[k]
    /\ pc = "swap" => trace = FrameSteps
    /\ (pc = "loop" /\ frames >= 1) => trace = FrameSteps
    /\ pc = "poll" => trace = << >>
    /\ AboutToExtract => TransformsFresh
    /\ LinesBuilt => lineVerts = buildSkeletonLines(updateGlobals(bones, Identity))

C4_Witness ==
    /\ pc = "buildTris"
    /\ frames >= 1
    /\ trace[Len(trace)] = "uploadLines"
    /\ bones[5].eulerDeg # Zero3
    /\ TransformsFresh

IsUpload(step) == step \in {"uploadLines", "uploadTris"}

\* C5 as stated: every upload is preceded by a check of the stream's byte
\* size against the buffer capacity, and no upload writes more bytes than
\* the buffer was allocated with.
C5_SizeCheckedBeforeUpload ==
    /\ \A k \in 1..Len(trace) :
          IsUpload(trace[k]) => (k > 1 /\ trace[k - 1] = "checkSize")
    /\ vboLines <= BufferCapacity
    /\ vboTris <= BufferCapacity

\* C8: after makeHuman no frame step changes the number of bones or a bone's
\* parent, bindOffset or length; localRotation and worldTransform change only
\* in the animateWalk step (which ends with updateGlobals); the rig always
\* has 16 bones in topological order.
C8_StructureFrozen ==
    /\ [][Built =>
            /\ Structure(bones') = Structure(bones)
            /\ pc # "animate" => bones' = bones]_vars
    /\ [](Built => (Len(bones) = 16 /\ TopologicalOrder(bones)))

C8_Witness ==
    /\ frames >= 2
    /\ pc = "buildLines"
    /\ Structure(bones) = Structure(makeHuman)
    /\ bones[5].eulerDeg # Zero3
    /\ bones[5].global # Identity

kneeL == 5
kneeR == 8

\* C10: the X rotation written to each knee is never positive, it is zero
\* whenever the knee's driving sine (sin(phase) left, sin(phase + pi) right)
\* is negative, and the knee's Y and Z rotations are zero.
C10_KneesNeverHyperextend ==
    Built =>
        LET phase == walkPhase(t)
            rl == bones[kneeL + 1].eulerDeg
            rr == bones[kneeR + 1].eulerDeg
        IN  /\ rl[1] <= 0 /\ rr[1] <= 0
            /\ rl[2] = 0 /\ rl[3] = 0 /\ rr[2] = 0 /\ rr[3] = 0
            /\ Sin(phase) < 0 => rl[1] = 0
            /\ Sin(phase + piDeg) < 0 => rr[1] = 0

C10_Witness ==
    /\ JustAnimated
    /\ Sin(walkPhase(t)) < 0
    /\ bones[kneeL + 1].eulerDeg[1] = 0
    /\ bones[kneeR + 1].eulerDeg[1] < 0

----------------------------------------------------------------------------
(* Input callbacks, dispatched by glfwPollEvents (specification SpecCamera). *)
(* They touch only the camera globals; the frame steps above never do.       *)

\* main when its loop first reaches glfwPollEvents.
InitCamera ==
    /\ bones = makeHuman
    /\ pc = "poll"
    /\ t = 0
    /\ trace = << >>
    /\ frames = 0
    /\ lineVerts = << >>
    /\ triVerts = 0
    /\ headRead = FALSE
    /\ tess = <<0, 0>>
    /\ vboLines = 0
    /\ vboTris = 0
    /\ glError = FALSE
    /\ lastOp = "none"
    /\ crashed = FALSE
    /\ sweeps = 0
    /\ g_mouseDown = FALSE
    /\ g_lastX = 0
    /\ g_lastY = 0
    /\ g_cam = Camera

\* A cursor-position event; drags are followed while |yaw| <= MaxYaw degrees.
CursorPosEvent ==
    /\ pc = "poll"
    /\ \E x \in CursorXs, y \in CursorYs :
        LET r == cursorPos(g_mouseDown, g_lastX, g_lastY, g_cam, x, y)
        IN  /\ r[3].yaw <= 10 * MaxYaw
            /\ r[3].yaw >= 0 - 10 * MaxYaw
            /\ g_lastX' = r[1]
            /\ g_lastY' = r[2]
            /\ g_cam' = r[3]
    /\ UNCHANGED g_mouseDown
    /\ UNCHANGED skelVars

\* A mouse-button event.
MouseBtnEvent ==
    /\ pc = "poll"
    /\ \E button \in Buttons, action \in ButtonActions :
        g_mouseDown' = mouseBtn(g_mouseDown, button, action)
    /\ UNCHANGED <<g_lastX, g_lastY, g_cam>>
    /\ UNCHANGED skelVars

\* A scroll event.
ScrollEvent ==
    /\ pc = "poll"
    /\ \E yoff \in ScrollOffsets : g_cam' = scrollCB(g_cam, yoff)
    /\ UNCHANGED <<g_mouseDown, g_lastX, g_lastY>>
    /\ UNCHANGED skelVars

NextCamera ==
    \/ CursorPosEvent
    \/ MouseBtnEvent
    \/ ScrollEvent

SpecCamera == InitCamera /\ [][NextCamera]_vars

\* C9: after any sequence of mouse-button, cursor and scroll events from the
\* initial camera, pitch is within [-85, 85] and dist within [1.2, 8.0]; a
\* cursor move while the left button is up changes neither yaw nor pitch.
C9_CameraClamped ==
    /\ [](/\ g_cam.pitch >= 0 - pitchLimit /\ g_cam.pitch <= pitchLimit
          /\ g_cam.dist >= distMin /\ g_cam.dist <= distMax)
    /\ [][(~g_mouseDown /\ <<g_lastX', g_lastY'>> # <<g_lastX, g_lastY>>)
            => (g_cam'.yaw = g_cam.yaw /\ g_cam'.pitch = g_cam.pitch)]_vars

C9_Witness ==
    /\ g_cam.pitch = pitchLimit
    /\ g_cam.dist = distMin
    /\ g_cam.yaw # Camera.yaw
    /\ ~g_mouseDown
    /\ g_lastY = 0

----------------------------------------------------------------------------
(* A client of Skeleton that builds any skeleton with addBone, evaluates it  *)
(* with updateGlobals and asks for the head sphere (specification SpecBuild). *)

\* addBone inputs for the bone that gets index n: <<parent, kind>>.  The
\* first bone is given no parent, itself or a later index; every other bone
\* the root, the previous bone, itself or the next index (a forward
\* reference once that bone exists, out of range until then).
ParentInputs(n) == IF n = 0 THEN {-1, 0, 1} ELSE {0, n - 1, n, n + 1}
BoneKinds ==
    << [bindOffset |-> <<0, spineLen, 0>>, length |-> 0],
       [bindOffset |-> <<hipWidth \div 2, 0 - hipDrop, 0>>, length |-> upperLeg] >>
AddBoneInputs(n) ==
    { <<p, BoneKinds[((n + p + 1) % 2) + 1]>> : p \in ParentInputs(n) }

\* buildHeadSphereTris inputs <<stacks, slices>>.
TessInputs == { <<1, 1>>, <<2, 3>> }

\* Rotation writes <<idx, eulerDeg>> a client makes to pose the skeleton.
RotInputs == { <<0, Zero3>>, <<0, <<0, 0, 90 * Scale>> >> }

\* What an out-of-bounds read of bones[p].global may yield.
GarbageMats == { Identity, translate(<<7, 7, 7>>) }

InitBuild ==
    /\ bones = << >>
    /\ pc = "build"
    /\ t = 0
    /\ trace = << >>
    /\ frames = 0
    /\ lineVerts = << >>
    /\ triVerts = 0
    /\ headRead = FALSE
    /\ tess = <<0, 0>>
    /\ vboLines = 0
    /\ vboTris = 0
    /\ glError = FALSE
    /\ lastOp = "none"
    /\ crashed = FALSE
    /\ sweeps = 0
    /\ g_mouseDown = FALSE
    /\ g_lastX = 0
    /\ g_lastY = 0
    /\ g_cam = Camera

\* s.addBone(parent, bindOffset, length)
AddBoneCall ==
    /\ pc = "build" /\ ~crashed
    /\ Len(bones) < MaxBones
    /\ \E in \in AddBoneInputs(Len(bones)) :
        bones' = addBone(bones, in[1], in[2].bindOffset, in[2].length)
    /\ lastOp' = "addBone"
    /\ triVerts' = 0 /\ headRead' = FALSE /\ tess' = <<0, 0>>
    /\ UNCHANGED <<pc, t, trace, frames, lineVerts, vboLines, vboTris, glError,
                   crashed, sweeps>>
    /\ UNCHANGED camVars

\* s.updateGlobals() returns; a parent index past the end read some value.
UpdateGlobalsCall ==
    /\ pc = "build" /\ ~crashed
    /\ sweeps < MaxSweeps
    /\ \E oob \in (IF ReadsOutOfBounds(bones) THEN GarbageMats ELSE {Identity}) :
        bones' = updateGlobals(bones, oob)
    /\ sweeps' = sweeps + 1
    /\ lastOp' = "updateGlobals"
    /\ triVerts' = 0 /\ headRead' = FALSE /\ tess' = <<0, 0>>
    /\ UNCHANGED <<pc, t, trace, frames, lineVerts, vboLines, vboTris, glError,
                   crashed>>
    /\ UNCHANGED camVars

\* s.updateGlobals() dies on the read past the end of the vector.
UpdateGlobalsCrash ==
    /\ pc = "build" /\ ~crashed
    /\ sweeps < MaxSweeps
    /\ ReadsOutOfBounds(bones)
    /\ crashed' = TRUE
    /\ sweeps' = sweeps + 1
    /\ lastOp' = "updateGlobals"
    /\ triVerts' = 0 /\ headRead' = FALSE /\ tess' = <<0, 0>>
    /\ UNCHANGED <<bones, pc, t, trace, frames, lineVerts, vboLines, vboTris,
                   glError>>
    /\ UNCHANGED camVars

\* s.bones[idx].eulerDeg = {rx, ry, rz}
SetRotationCall ==
    /\ pc = "build" /\ ~crashed
    /\ \E w \in RotInputs :
        /\ w[1] < Len(bones)
        /\ bones' = setR(bones, w[1], w[2])
    /\ lastOp' = "setR"
    /\ triVerts' = 0 /\ headRead' = FALSE /\ tess' = <<0, 0>>
    /\ UNCHANGED <<pc, t, trace, frames, lineVerts, vboLines, vboTris, glError,
                   crashed, sweeps>>
    /\ UNCHANGED camVars

\* buildHeadSphereTris(s, stacks, slices)
BuildHeadCall ==
    /\ pc = "build" /\ ~crashed
    /\ \E ts \in TessInputs :
        LET r == buildHeadSphereTris(bones, ts[1], ts[2])
        IN  triVerts' = r.count /\ headRead' = r.read /\ tess' = ts
    /\ lastOp' = "buildHeadSphereTris"
    /\ UNCHANGED <<bones, pc, t, trace, frames, lineVerts, vboLines, vboTris,
                   glError, crashed, sweeps>>
    /\ UNCHANGED camVars

NextBuild ==
    \/ AddBoneCall
    \/ UpdateGlobalsCall
    \/ UpdateGlobalsCrash
    \/ SetRotationCall
    \/ BuildHeadCall

SpecBuild == InitBuild /\ [][NextBuild]_vars

----------------------------------------------------------------------------
(* Properties of Skeleton and the head sphere (specification SpecBuild) *)

\* Every bone of the skeleton names a parent index below its own index.
ParentsBelowOwnIndex(bs) == \A i \in 1..Len(bs) : bs[i].parent < i - 1

\* C1 as stated: an addBone call whose parent index is equal to or greater
\* than the index the new bone receives fails with InvalidHierarchy, so no
\* such bone is ever in the skeleton and updateGlobals never runs on one.
C1_InvalidHierarchyRejected ==
    /\ ParentsBelowOwnIndex(bones)
    /\ lastOp = "updateGlobals" => ParentsBelowOwnIndex(bones)

\* C6: buildHeadSphereTris returns an empty stream, without reading a bone,
\* for a skeleton of 0 to 3 bones; for a skeleton that has slot 3 it returns
\* exactly 6*stacks*slices vertices, a multiple of 3.
C6_HeadSphereCount ==
    lastOp = "buildHeadSphereTris" =>
        /\ Len(bones) <= 3 => (triVerts = 0 /\ ~headRead)
        /\ Len(bones) >= 4 =>
              /\ headRead
              /\ triVerts = 6 * tess[1] * tess[2]
              /\ triVerts % 3 = 0

C6_Witness ==
    /\ lastOp = "buildHeadSphereTris"
    /\ Len(bones) = 3
    /\ tess = <<2, 3>>
    /\ triVerts = 0
    /\ ~headRead

AllZeroRotation(bs) == \A i \in 1..Len(bs) : bs[i].eulerDeg = Zero3

\* The sum of the bindOffset vectors of bone i (1-based) and its ancestors.
RECURSIVE ChainSum(_, _)
ChainSum(bs, i) ==
    IF bs[i].parent < 0 THEN bs[i].bindOffset
    ELSE Add3(ChainSum(bs, bs[i].parent + 1), bs[i].bindOffset)

\* C7: for a skeleton in topological order whose rotations are all zero,
\* after one updateGlobals sweep every joint position is the sum of the
\* bindOffset vectors along the bone's ancestor chain, and a second sweep
\* changes nothing.
C7_ZeroRotationChainSum ==
    (/\ lastOp = "updateGlobals" /\ ~crashed
     /\ TopologicalOrder(bones) /\ AllZeroRotation(bones)) =>
        /\ \A i \in 1..Len(bones) : jointPos(bones[i]) = ChainSum(bones, i)
        /\ updateGlobals(bones, Identity) = bones

C7_Witness ==
    /\ lastOp = "updateGlobals"
    /\ Len(bones) = 4
    /\ TopologicalOrder(bones)
    /\ AllZeroRotation(bones)
    /\ bones[3].parent = 1 /\ bones[4].parent = 0
    /\ jointPos(bones[3]) = ChainSum(bones, 3)
    /\ jointPos(bones[3]) # bones[3].bindOffset

====
